---------------------------- MODULE Spec2Model ----------------------------
(***************************************************************************)
(* CRYPTOGRAPHER: file -> fixed-size rgb24 frames -> lossless video, and   *)
(* back.  Two programs are modelled:                                       *)
(*   src/test.cpp     global-size variant: reader thread, FrameQueue,      *)
(*                    writer thread, progress loop; decode branch.         *)
(*   src/yt-safe.cpp  per-frame variant: encode_file, decode_video.        *)
(* The external codec (ffmpeg) is a byte pipe that returns what it got.    *)
(*                                                                         *)
(* Frame geometry and queue capacity are scaled down (see the CONFIG       *)
(* definitions); a byte is a number in 0..255 and a buffer a sequence of   *)
(* bytes.                                                                  *)
(***************************************************************************)
EXTENDS Integers, Sequences, FiniteSets, TLC

(* ------------------------------ CONFIG -------------------------------- *)
\* src/test.cpp:25-31.  The geometry and the queue are scaled down and bound
\* the model: 3 x 1 pixels instead of 1920 x 1080, a queue of 2 frames
\* instead of 64.
FRAME_WIDTH == 3
FRAME_HEIGHT == 1
PACK_PER_PIXEL == 3
FRAME_CAPACITY == FRAME_WIDTH * FRAME_HEIGHT * PACK_PER_PIXEL
QUEUE_MAX_FRAMES == 2

\* src/yt-safe.cpp:11-15, scaled: 3 x 2 pixels instead of 320 x 240, which
\* leaves 2 payload bytes after the 16-byte header (at most one byte of
\* noise in a frame, so that every value of rand() % 256 can be tried).
FRAME_WIDTH_YT == 3
FRAME_HEIGHT_YT == 2
FRAME_PIXELS == FRAME_WIDTH_YT * FRAME_HEIGHT_YT
FRAME_SIZE == FRAME_PIXELS * 3
HEADER_SIZE == 16

\* The values of rand() % 256 (src/yt-safe.cpp:72).
RandValues == 0..255

\* const size_t COPY_BUF (src/test.cpp:265), scaled: 4 bytes, not 64 MB.
COPY_BUF == 4

\* Bounds of the model: the push calls of the free callers, the length of
\* the source file.
MaxPushes == 3
MaxLen == 20

\* The source files: every length up to MaxLen, with all bytes zero, with
\* bytes counting up from 1, and with bytes counting down from 255.
Seeds == {0, 1, 255}
InputsOf(s) == {[i \in 1..n |-> (i * s) % 256] : n \in 0..MaxLen}
Inputs == UNION {InputsOf(s) : s \in Seeds}

\* Threads that call FrameQueue: three free callers for the queue on its
\* own, and the two threads of the encode pipeline.
Callers == {"t1", "t2", "t3"}
PipeThreads == {"reader", "writer"}
QThreads == Callers \cup PipeThreads
NoThread == "none"

VARIABLES
    \* FrameQueue (src/test.cpp:41-75)
    q,          \* std::deque<Buffer> q
    closed,     \* bool closed
    mtx,        \* std::mutex m: the thread holding it, or NoThread
    qpc,        \* per thread: where it is inside push / pop / close
    arg,        \* per thread: the buffer passed to push
    ret,        \* per thread: the bool the last call returned
    out,        \* per thread: the buffer pop moved out
    \* history of the queue (not program state)
    accepted,   \* buffers of the pushes that returned true, in order
    delivered,  \* buffers of the pops that returned true, in order
    cl_delivered, \* Len(delivered) when close first ran, -1 before
    cl_woke,    \* the threads that were blocked when close first ran
    npush,      \* number of push calls the free callers have made
    \* the run: which program, on which file
    prog,       \* "queue", "test" (src/test.cpp) or "yt" (src/yt-safe.cpp)
    input,      \* the bytes of the source file
    exit_code,  \* per process ("encode", "decode"): what main returned, or -1
    \* encode branch of src/test.cpp (lines 121-222)
    pc,         \* per thread ("main", "reader", "writer"): its position
    file_size,  \* long long file_size (line 122)
    fpos,       \* read position of FILE* f (line 157), -1 when f is NULL
    frames_produced, \* std::atomic<size_t>
    frames_consumed, \* std::atomic<size_t>
    reader_done,     \* std::atomic<bool>
    buf,        \* the writer thread's Buffer buf (line 137)
    written,    \* history: the buffers write_all was called with, in order
    ff_stdin,   \* the bytes the codec received on its stdin
    write_error, \* write_all returned -1 (line 143)
    m_ld,       \* main: the first of the two loads of line 209's comparison
    m_prod,     \* main: size_t prod (line 210)
    m_cons,     \* main: size_t cons (line 211)
    \* the codec's output, read by a decoder: the bytes it was given
    ff_stdout,
    \* decode branch of src/test.cpp (lines 223-284)
    dpc,        \* position of the decode process
    dpos,       \* read position in the codec's output
    frames,     \* size_t frames (line 239)
    tmp,        \* the bytes of the file output + ".tmp"
    tpos,       \* read position of FILE* tmp
    orig_size,  \* unsigned long long orig_size (line 258)
    remaining,  \* size_t remaining (line 268)
    final_out,  \* the bytes of the output file
    \* src/yt-safe.cpp
    ypc,        \* position in encode_file / decode_video
    bytes_left, \* uint64_t bytes_left (line 42)
    frame_index, \* uint64_t frame_index (line 43)
    fin_pos,    \* read position of std::ifstream fin
    frame,      \* std::vector<uint8_t> frame (lines 58, 106)
    pipe_in,    \* the bytes fwrite sent down the pipe to the codec
    fout        \* the bytes of the output file of decode_video

qvars == <<q, closed, mtx, qpc, arg, ret, out, accepted, delivered, cl_delivered, cl_woke>>
evars == <<pc, file_size, fpos, frames_produced, frames_consumed, reader_done,
           buf, written, ff_stdin, write_error, m_ld, m_prod, m_cons>>
runvars == <<prog, input, exit_code>>
dvars == <<ff_stdout, dpc, dpos, frames, tmp, tpos, orig_size, remaining,
           final_out>>
yvars == <<ypc, bytes_left, frame_index, fin_pos, frame, pipe_in, fout>>

vars == <<qvars, npush, runvars, evars, dvars, yvars>>

(* ----------------------------- FrameQueue ----------------------------- *)
\* FrameQueue::max_frames, set by the constructor (src/test.cpp:49, 126).
max_frames == QUEUE_MAX_FRAMES

\* The threads blocked on each condition variable.
cv_not_full == {t \in QThreads : qpc[t] = "push_wait"}
cv_not_empty == {t \in QThreads : qpc[t] = "pop_wait"}

\* The predicate of cv_not_full.wait (src/test.cpp:53).
PushPredOffByOne(sz, cl) == sz <= max_frames \/ cl
PushPred(sz, cl) == sz < max_frames \/ cl

\* if (closed) return false (src/test.cpp:54).
PushRefusedNever(cl) == FALSE
PushRefused(cl) == cl

\* The predicate of cv_not_empty.wait (src/test.cpp:62).
PopPred(sz, cl) == sz > 0 \/ cl

\* if (q.empty()) return false (src/test.cpp:63).
PopFailsOnClosed(s, cl) == s = <<>> \/ cl
PopFails(s, cl) == s = <<>>

\* condition_variable::notify_one on the waiters ws, which wait in state
\* from: the resulting qpc, for each choice of the thread woken (none when
\* nobody waits).  A woken thread has to take the mutex again.
NotifyOneNobody(pcs, ws, relock) == {pcs}
NotifyOne(pcs, ws, relock) ==
    IF ws = {} THEN {pcs}
    ELSE {[pcs EXCEPT ![w] = relock] : w \in ws}

\* condition_variable::notify_all.
NotifyAllWakesOne(pcs, ws, relock) ==
    IF ws = {} THEN pcs ELSE [pcs EXCEPT ![CHOOSE w \in ws : TRUE] = relock]
NotifyAll(pcs, ws, relock) ==
    [t \in QThreads |-> IF t \in ws THEN relock ELSE pcs[t]]

\* std::unique_lock<std::mutex> lk(m) (src/test.cpp:52, 61, 70), and the
\* re-acquisition of m when a wait wakes up.
Lock(t) ==
    /\ qpc[t] \in {"push_lock", "pop_lock", "close_lock"}
    /\ mtx = NoThread
    /\ mtx' = t
    /\ qpc' = [qpc EXCEPT ![t] = CASE qpc[t] = "push_lock" -> "push_cs"
                                   [] qpc[t] = "pop_lock" -> "pop_cs"
                                   [] OTHER -> "close_cs"]
    /\ UNCHANGED <<q, closed, arg, ret, out, accepted, delivered, cl_delivered, cl_woke>>
    /\ UNCHANGED <<npush, runvars, evars, dvars, yvars>>

\* FrameQueue::push with the mutex held (src/test.cpp:53-57).
PushBody(t) ==
    /\ qpc[t] = "push_cs"
    /\ mtx = t
    /\ mtx' = NoThread
    /\ IF ~PushPred(Len(q), closed)
       THEN \* wait: release m and block on cv_not_full
            /\ qpc' = [qpc EXCEPT ![t] = "push_wait"]
            /\ UNCHANGED <<q, ret, accepted>>
       ELSE IF PushRefused(closed)
       THEN /\ ret' = [ret EXCEPT ![t] = FALSE]
            /\ qpc' = [qpc EXCEPT ![t] = "ret"]
            /\ UNCHANGED <<q, accepted>>
       ELSE /\ q' = Append(q, arg[t])
            /\ accepted' = Append(accepted, arg[t])
            /\ ret' = [ret EXCEPT ![t] = TRUE]
            /\ qpc' \in NotifyOne([qpc EXCEPT ![t] = "ret"], cv_not_empty, "pop_lock")
    /\ UNCHANGED <<closed, arg, out, delivered, cl_delivered, cl_woke>>
    /\ UNCHANGED <<npush, runvars, evars, dvars, yvars>>

\* What pop takes: the front of the deque (src/test.cpp:64-65).
PopTakeBack(s) == <<s[Len(s)], SubSeq(s, 1, Len(s) - 1)>>
PopTake(s) == <<Head(s), Tail(s)>>

\* FrameQueue::pop with the mutex held (src/test.cpp:62-67).
PopBody(t) ==
    /\ qpc[t] = "pop_cs"
    /\ mtx = t
    /\ mtx' = NoThread
    /\ IF ~PopPred(Len(q), closed)
       THEN /\ qpc' = [qpc EXCEPT ![t] = "pop_wait"]
            /\ UNCHANGED <<q, ret, out, delivered>>
       ELSE IF PopFails(q, closed)
       THEN /\ ret' = [ret EXCEPT ![t] = FALSE]
            /\ qpc' = [qpc EXCEPT ![t] = "ret"]
            /\ UNCHANGED <<q, out, delivered>>
       ELSE /\ out' = [out EXCEPT ![t] = PopTake(q)[1]]
            /\ q' = PopTake(q)[2]
            /\ delivered' = Append(delivered, PopTake(q)[1])
            /\ ret' = [ret EXCEPT ![t] = TRUE]
            /\ qpc' \in NotifyOne([qpc EXCEPT ![t] = "ret"], cv_not_full, "push_lock")
    /\ UNCHANGED <<closed, arg, accepted, cl_delivered, cl_woke>>
    /\ UNCHANGED <<npush, runvars, evars, dvars, yvars>>

\* FrameQueue::close with the mutex held (src/test.cpp:71-73).
CloseBody(t) ==
    /\ qpc[t] = "close_cs"
    /\ mtx = t
    /\ mtx' = NoThread
    /\ closed' = TRUE
    /\ qpc' = NotifyAll(NotifyAll([qpc EXCEPT ![t] = "ret"],
                                  cv_not_empty, "pop_lock"),
                        cv_not_full, "push_lock")
    /\ IF closed
       THEN UNCHANGED <<cl_delivered, cl_woke>>
       ELSE /\ cl_delivered' = Len(delivered)
            /\ cl_woke' = cv_not_empty \cup cv_not_full
    /\ UNCHANGED <<q, arg, ret, out, accepted, delivered>>
    /\ UNCHANGED <<npush, runvars, evars, dvars, yvars>>

\* A wait may wake up with no notification (std::condition_variable allows
\* spurious wake-ups); the thread takes the mutex and tests the predicate
\* again (src/test.cpp:53, 62).
SpuriousWake(t) ==
    /\ qpc[t] \in {"push_wait", "pop_wait"}
    /\ qpc' = [qpc EXCEPT ![t] = IF qpc[t] = "push_wait" THEN "push_lock"
                                 ELSE "pop_lock"]
    /\ UNCHANGED <<q, closed, mtx, arg, ret, out, accepted, delivered, cl_delivered, cl_woke>>
    /\ UNCHANGED <<npush, runvars, evars, dvars, yvars>>

\* One step of thread t inside a FrameQueue call.
QueueStep(t) ==
    \/ Lock(t)
    \/ PushBody(t)
    \/ PopBody(t)
    \/ CloseBody(t)

(* --------------------------- bytes and buffers ------------------------- *)
\* n zero bytes: what Buffer::resize and memset(.., 0, n) give.
Zeros(n) == [i \in 1..n |-> 0]

\* buf with bytes copied in at offset off (0-based), as fread and memset
\* do into frame.data() + off.
WriteAt(b, off, bytes) ==
    [i \in 1..Len(b) |->
        IF off < i /\ i <= off + Len(bytes) THEN bytes[i - off] ELSE b[i]]

\* v >> (8 * n).
RECURSIVE Shr8(_, _)
Shr8(v, n) == IF n = 0 THEN v ELSE Shr8(v \div 256, n - 1)

\* fread(dst, 1, n, f) at position pos of a file with bytes data: the bytes
\* read (fewer than n only at the end of the file).
FRead(data, pos, n) ==
    SubSeq(data, pos + 1, IF pos + n <= Len(data) THEN pos + n ELSE Len(data))

(* ------------------- FrameQueue under arbitrary callers ---------------- *)
\* No program is running: the state of the variables of the encode branch
\* before main reaches it.
EncodeOff ==
    /\ pc = [t \in {"main", "reader", "writer"} |-> "off"]
    /\ file_size = 0
    /\ fpos = 0
    /\ frames_produced = 0
    /\ frames_consumed = 0
    /\ reader_done = FALSE
    /\ buf = <<>>
    /\ written = <<>>
    /\ ff_stdin = <<>>
    /\ write_error = FALSE
    /\ m_ld = 0
    /\ m_prod = 0
    /\ m_cons = 0

NotRun == [p \in {"encode", "decode"} |-> -1]

\* The decode branch of src/test.cpp has not started.
DecodeOff ==
    /\ ff_stdout = <<>>
    /\ dpc = "off"
    /\ dpos = 0
    /\ frames = 0
    /\ tmp = <<>>
    /\ tpos = 0
    /\ orig_size = 0
    /\ remaining = 0
    /\ final_out = <<>>

\* src/yt-safe.cpp is not running.
YtOff(at) ==
    /\ ypc = at
    /\ bytes_left = 0
    /\ frame_index = 0
    /\ fin_pos = 0
    /\ frame = <<>>
    /\ pipe_in = <<>>
    /\ fout = <<>>

\* The buffer of the k-th push call: one byte, its number.
CallerFrame(k) == <<k>>

NoFrame == <<>>

\* FrameQueue queue(max_frames): empty and open (src/test.cpp:42-49).
QueueNew ==
    /\ q = <<>>
    /\ closed = FALSE
    /\ mtx = NoThread
    /\ qpc = [t \in QThreads |-> "idle"]
    /\ arg = [t \in QThreads |-> NoFrame]
    /\ ret = [t \in QThreads |-> FALSE]
    /\ out = [t \in QThreads |-> NoFrame]
    /\ accepted = <<>>
    /\ delivered = <<>>
    /\ cl_delivered = -1
    /\ cl_woke = {}

InitQ ==
    /\ QueueNew
    /\ npush = 0
    /\ prog = "queue"
    /\ input = <<>>
    /\ exit_code = NotRun
    /\ EncodeOff
    /\ DecodeOff
    /\ YtOff("off")

\* A thread that is in no call (it never called, or its last call returned)
\* calls push with the next buffer, pop, or close.  Each call starts with a
\* fresh argument and result.
CallPush(t) ==
    /\ qpc[t] \in {"idle", "ret"}
    /\ npush < MaxPushes
    /\ npush' = npush + 1
    /\ arg' = [arg EXCEPT ![t] = CallerFrame(npush + 1)]
    /\ out' = [out EXCEPT ![t] = NoFrame]
    /\ ret' = [ret EXCEPT ![t] = FALSE]
    /\ qpc' = [qpc EXCEPT ![t] = "push_lock"]
    /\ UNCHANGED <<q, closed, mtx, accepted, delivered, cl_delivered, cl_woke>>
    /\ UNCHANGED <<runvars, evars, dvars, yvars>>

CallPop(t) ==
    /\ qpc[t] \in {"idle", "ret"}
    /\ qpc' = [qpc EXCEPT ![t] = "pop_lock"]
    /\ arg' = [arg EXCEPT ![t] = NoFrame]
    /\ out' = [out EXCEPT ![t] = NoFrame]
    /\ ret' = [ret EXCEPT ![t] = FALSE]
    /\ UNCHANGED <<q, closed, mtx, accepted, delivered, cl_delivered, cl_woke, npush>>
    /\ UNCHANGED <<runvars, evars, dvars, yvars>>

CallClose(t) ==
    /\ qpc[t] \in {"idle", "ret"}
    /\ qpc' = [qpc EXCEPT ![t] = "close_lock"]
    /\ arg' = [arg EXCEPT ![t] = NoFrame]
    /\ out' = [out EXCEPT ![t] = NoFrame]
    /\ ret' = [ret EXCEPT ![t] = FALSE]
    /\ UNCHANGED <<q, closed, mtx, accepted, delivered, cl_delivered, cl_woke, npush>>
    /\ UNCHANGED <<runvars, evars, dvars, yvars>>

NextQ ==
    \E t \in Callers :
        \/ CallPush(t)
        \/ CallPop(t)
        \/ CallClose(t)
        \/ Lock(t)
        \/ PushBody(t)
        \/ PopBody(t)
        \/ CloseBody(t)
        \/ SpuriousWake(t)

SpecQ == InitQ /\ [][NextQ]_vars

\* Fair scheduling of the callers: a thread that keeps asking for the mutex
\* gets it, and a thread that holds it runs on.  A thread need not call
\* again, and no spurious wake-up is promised.
BodyStep(t) == PushBody(t) \/ PopBody(t) \/ CloseBody(t)

FairSpecQ ==
    SpecQ /\ \A t \in Callers : SF_vars(Lock(t)) /\ WF_vars(BodyStep(t))

(* ----------------- src/test.cpp: the encode branch --------------------- *)
\* const size_t first_capacity (line 161): 8 bytes hold the file size.
first_capacity_whole == FRAME_CAPACITY
first_capacity_short == FRAME_CAPACITY - 9
first_capacity == FRAME_CAPACITY - 8

\* The 8-byte big-endian size (lines 172-175): frame[7 - i] = fs >> 8i.
SizeHeader(fs) == [k \in 1..8 |-> Shr8(fs, 8 - k) % 256]

\* The first frame (lines 165-180): resized to FRAME_CAPACITY, the data
\* read at offset 8, the size header at offset 0, the rest zeroed.
FirstFrame(data, fs) ==
    LET f0 == Zeros(FRAME_CAPACITY)
        f1 == WriteAt(f0, 8, data)
        f2 == WriteAt(f1, 0, SizeHeader(fs))
    IN  IF Len(data) < first_capacity
        THEN WriteAt(f2, 8 + Len(data), Zeros(first_capacity - Len(data)))
        ELSE f2

\* A later frame (lines 165-166, 183-189): the data read, zero-padded.
LaterFrameShort(data) == data
LaterFrame(data) ==
    LET f0 == Zeros(FRAME_CAPACITY)
        f1 == WriteAt(f0, 0, data)
    IN  IF Len(data) < FRAME_CAPACITY
        THEN WriteAt(f1, Len(data), Zeros(FRAME_CAPACITY - Len(data)))
        ELSE f1

Enter(t, at) == [pc EXCEPT ![t] = at]
Exit(p, code) == [exit_code EXCEPT ![p] = code]

\* A thread starts a FrameQueue call.
QCall(t, op, b) ==
    /\ qpc' = [qpc EXCEPT ![t] = op]
    /\ arg' = [arg EXCEPT ![t] = b]
    /\ ret' = [ret EXCEPT ![t] = FALSE]
    /\ out' = [out EXCEPT ![t] = NoFrame]

\* get_file_size (lines 34-38, 122-123): stat fails, or gives the size.
MainStat ==
    /\ pc["main"] = "m_stat"
    /\ \E ok \in BOOLEAN :
        IF ok
        THEN /\ file_size' = Len(input)
             /\ pc' = Enter("main", "m_popen")
             /\ UNCHANGED exit_code
        ELSE /\ pc' = Enter("main", "exit")
             /\ exit_code' = Exit("encode", 1)
             /\ UNCHANGED file_size
    /\ UNCHANGED <<qvars, prog, input, fpos, frames_produced, frames_consumed,
                   reader_done, buf, written, ff_stdin, write_error, m_ld,
                   m_prod, m_cons>>
    /\ UNCHANGED <<npush, dvars, yvars>>

\* start_ffmpeg_writer (lines 132-134): popen fails, or the pipe is open.
MainPopen ==
    /\ pc["main"] = "m_popen"
    /\ \E ok \in BOOLEAN :
        IF ok
        THEN /\ pc' = Enter("main", "m_spawn_w")
             /\ UNCHANGED exit_code
        ELSE /\ pc' = Enter("main", "exit")
             /\ exit_code' = Exit("encode", 1)
    /\ UNCHANGED <<qvars, prog, input, file_size, fpos, frames_produced,
                   frames_consumed, reader_done, buf, written, ff_stdin,
                   write_error, m_ld, m_prod, m_cons>>
    /\ UNCHANGED <<npush, dvars, yvars>>

\* std::thread writer(...) (line 136), then std::thread reader(...) (156).
MainSpawn ==
    /\ \/ /\ pc["main"] = "m_spawn_w"
          /\ pc' = [pc EXCEPT !["main"] = "m_spawn_r", !["writer"] = "w_pop"]
       \/ /\ pc["main"] = "m_spawn_r"
          /\ pc' = [pc EXCEPT !["main"] = "m_loop", !["reader"] = "r_fopen"]
    /\ UNCHANGED <<qvars, runvars, file_size, fpos, frames_produced,
                   frames_consumed, reader_done, buf, written, ff_stdin,
                   write_error, m_ld, m_prod, m_cons>>
    /\ UNCHANGED <<npush, dvars, yvars>>

(* reader thread, lines 156-206 *)
\* fopen (lines 157-158): on failure (f is NULL, fpos = -1) the reader
\* closes the queue.
ReaderFopen ==
    /\ pc["reader"] = "r_fopen"
    /\ \E ok \in BOOLEAN :
        IF ok
        THEN /\ fpos' = 0
             /\ pc' = Enter("reader", "r_loop")
             /\ UNCHANGED <<qpc, arg, ret, out>>
        ELSE /\ fpos' = -1
             /\ pc' = Enter("reader", "r_close")
             /\ QCall("reader", "close_lock", NoFrame)
    /\ UNCHANGED <<q, closed, mtx, accepted, delivered, cl_delivered, cl_woke, runvars, file_size,
                   frames_produced, frames_consumed, reader_done, buf, written,
                   ff_stdin, write_error, m_ld, m_prod, m_cons>>
    /\ UNCHANGED <<npush, dvars, yvars>>

\* One pass of the loop up to the push (lines 163-193): build the frame
\* and call push, or leave the loop at the end of the file.
ReaderFrame ==
    /\ pc["reader"] = "r_loop"
    /\ LET first == frames_produced = 0
           data == FRead(input, fpos,
                         IF first THEN first_capacity ELSE FRAME_CAPACITY)
       IN  /\ fpos' = fpos + Len(data)
           /\ IF ~first /\ Len(data) = 0
              THEN /\ pc' = Enter("reader", "r_fclose")
                   /\ UNCHANGED <<qpc, arg, ret, out>>
              ELSE /\ pc' = Enter("reader", "r_push")
                   /\ QCall("reader", "push_lock",
                            IF first THEN FirstFrame(data, file_size)
                            ELSE LaterFrame(data))
    /\ UNCHANGED <<q, closed, mtx, accepted, delivered, cl_delivered, cl_woke, runvars, file_size,
                   frames_produced, frames_consumed, reader_done, buf, written,
                   ff_stdin, write_error, m_ld, m_prod, m_cons>>
    /\ UNCHANGED <<npush, dvars, yvars>>

\* push has returned (lines 193-195): count the frame, or leave the loop.
ReaderPushed ==
    /\ pc["reader"] = "r_push"
    /\ qpc["reader"] = "ret"
    /\ qpc' = [qpc EXCEPT !["reader"] = "idle"]
    /\ IF ret["reader"]
       THEN /\ frames_produced' = frames_produced + 1
            /\ pc' = Enter("reader", "r_loop")
       ELSE /\ pc' = Enter("reader", "r_fclose")
            /\ UNCHANGED frames_produced
    /\ UNCHANGED <<q, closed, mtx, arg, ret, out, accepted, delivered, cl_delivered, cl_woke, runvars,
                   file_size, fpos, frames_consumed, reader_done, buf, written,
                   ff_stdin, write_error, m_ld, m_prod, m_cons>>
    /\ UNCHANGED <<npush, dvars, yvars>>

\* fclose(f); queue.close() (lines 202-204).
ReaderClose ==
    /\ pc["reader"] = "r_fclose"
    /\ pc' = Enter("reader", "r_close")
    /\ QCall("reader", "close_lock", NoFrame)
    /\ UNCHANGED <<q, closed, mtx, accepted, delivered, cl_delivered, cl_woke, runvars, file_size,
                   fpos, frames_produced, frames_consumed, reader_done, buf,
                   written, ff_stdin, write_error, m_ld, m_prod, m_cons>>
    /\ UNCHANGED <<npush, dvars, yvars>>

\* close has returned: reader_done = true (lines 158, 205).
ReaderDone ==
    /\ pc["reader"] = "r_close"
    /\ qpc["reader"] = "ret"
    /\ qpc' = [qpc EXCEPT !["reader"] = "idle"]
    /\ reader_done' = TRUE
    /\ pc' = Enter("reader", "done")
    /\ UNCHANGED <<q, closed, mtx, arg, ret, out, accepted, delivered, cl_delivered, cl_woke, runvars,
                   file_size, fpos, frames_produced, frames_consumed, buf,
                   written, ff_stdin, write_error, m_ld, m_prod, m_cons>>
    /\ UNCHANGED <<npush, dvars, yvars>>

(* writer thread, lines 136-153 *)
\* bool ok = queue.pop(buf) (line 139).
WriterPop ==
    /\ pc["writer"] = "w_pop"
    /\ pc' = Enter("writer", "w_popped")
    /\ QCall("writer", "pop_lock", NoFrame)
    /\ UNCHANGED <<q, closed, mtx, accepted, delivered, cl_delivered, cl_woke, runvars, file_size,
                   fpos, frames_produced, frames_consumed, reader_done, buf,
                   written, ff_stdin, write_error, m_ld, m_prod, m_cons>>
    /\ UNCHANGED <<npush, dvars, yvars>>

\* pop has returned (line 140): leave the loop, or go on with the frame
\* moved into buf.
WriterPopped ==
    /\ pc["writer"] = "w_popped"
    /\ qpc["writer"] = "ret"
    /\ qpc' = [qpc EXCEPT !["writer"] = "idle"]
    /\ out' = [out EXCEPT !["writer"] = NoFrame]
    /\ IF ret["writer"]
       THEN /\ buf' = out["writer"]
            /\ pc' = Enter("writer", "w_write")
       ELSE /\ pc' = Enter("writer", "w_pclose")
            /\ UNCHANGED buf
    /\ UNCHANGED <<q, closed, mtx, arg, ret, accepted, delivered, cl_delivered, cl_woke, runvars,
                   file_size, fpos, frames_produced, frames_consumed,
                   reader_done, written, ff_stdin, write_error, m_ld, m_prod,
                   m_cons>>
    /\ UNCHANGED <<npush, dvars, yvars>>

\* write_all (lines 78-91, 142-147): all of buf reaches the codec, or
\* write fails after k < size bytes and the writer leaves its loop.
WriterWrite ==
    /\ pc["writer"] = "w_write"
    /\ written' = Append(written, buf)
    /\ \/ /\ ff_stdin' = ff_stdin \o buf
          /\ pc' = Enter("writer", "w_inc")
          /\ UNCHANGED write_error
       \/ \E k \in 0..(Len(buf) - 1) :
          /\ ff_stdin' = ff_stdin \o SubSeq(buf, 1, k)
          /\ write_error' = TRUE
          /\ pc' = Enter("writer", "w_pclose")
    /\ UNCHANGED <<qvars, runvars, file_size, fpos, frames_produced,
                   frames_consumed, reader_done, buf, m_ld, m_prod, m_cons>>
    /\ UNCHANGED <<npush, dvars, yvars>>

\* frames_consumed.fetch_add(1) (line 148).
WriterInc ==
    /\ pc["writer"] = "w_inc"
    /\ frames_consumed' = frames_consumed + 1
    /\ pc' = Enter("writer", "w_pop")
    /\ UNCHANGED <<qvars, runvars, file_size, fpos, frames_produced,
                   reader_done, buf, written, ff_stdin, write_error, m_ld,
                   m_prod, m_cons>>
    /\ UNCHANGED <<npush, dvars, yvars>>

\* fflush; pclose (lines 151-152): the writer thread ends.
WriterPclose ==
    /\ pc["writer"] = "w_pclose"
    /\ pc' = Enter("writer", "done")
    /\ UNCHANGED <<qvars, runvars, file_size, fpos, frames_produced,
                   frames_consumed, reader_done, buf, written, ff_stdin,
                   write_error, m_ld, m_prod, m_cons>>
    /\ UNCHANGED <<npush, dvars, yvars>>

(* main thread, lines 208-221 *)
\* The loop test of line 209, first operand: !reader_done.load().
MainLoadDone ==
    /\ pc["main"] = "m_loop"
    /\ pc' = Enter("main", IF reader_done THEN "m_cmp" ELSE "m_body")
    /\ UNCHANGED <<qvars, runvars, file_size, fpos, frames_produced,
                   frames_consumed, reader_done, buf, written, ff_stdin,
                   write_error, m_ld, m_prod, m_cons>>
    /\ UNCHANGED <<npush, dvars, yvars>>

\* The loop test of line 209, second operand: the two loads of
\* frames_consumed.load() < frames_produced.load() are unsequenced, so
\* either is made first.
MainCmpFirst ==
    /\ pc["main"] = "m_cmp"
    /\ \/ /\ m_ld' = frames_consumed
          /\ pc' = Enter("main", "m_cmp_p")
       \/ /\ m_ld' = frames_produced
          /\ pc' = Enter("main", "m_cmp_c")
    /\ UNCHANGED <<qvars, runvars, file_size, fpos, frames_produced,
                   frames_consumed, reader_done, buf, written, ff_stdin,
                   write_error, m_prod, m_cons>>
    /\ UNCHANGED <<npush, dvars, yvars>>

\* The comparison of line 209 on the two values loaded.
LoopAgainLe(cons, prod) == cons <= prod
LoopAgainNever(cons, prod) == FALSE
LoopAgain(cons, prod) == cons < prod

\* The second load and the comparison: stay in the loop, or leave it.
MainCmpSecond ==
    /\ pc["main"] \in {"m_cmp_p", "m_cmp_c"}
    /\ LET again == IF pc["main"] = "m_cmp_p"
                    THEN LoopAgain(m_ld, frames_produced)
                    ELSE LoopAgain(frames_consumed, m_ld)
       IN  pc' = Enter("main", IF again THEN "m_body" ELSE "m_alldone")
    /\ m_ld' = 0
    /\ UNCHANGED <<qvars, runvars, file_size, fpos, frames_produced,
                   frames_consumed, reader_done, buf, written, ff_stdin,
                   write_error, m_prod, m_cons>>
    /\ UNCHANGED <<npush, dvars, yvars>>

\* The loop body (lines 210-213): load prod, load cons, print, sleep.
MainBody ==
    /\ \/ /\ pc["main"] = "m_body"
          /\ m_prod' = frames_produced
          /\ pc' = Enter("main", "m_body_c")
          /\ UNCHANGED m_cons
       \/ /\ pc["main"] = "m_body_c"
          /\ m_cons' = frames_consumed
          /\ pc' = Enter("main", "m_print")
          /\ UNCHANGED m_prod
       \/ /\ pc["main"] = "m_print"
          /\ m_prod' = 0
          /\ m_cons' = 0
          /\ pc' = Enter("main", "m_loop")
    /\ UNCHANGED <<qvars, runvars, file_size, fpos, frames_produced,
                   frames_consumed, reader_done, buf, written, ff_stdin,
                   write_error, m_ld>>
    /\ UNCHANGED <<npush, dvars, yvars>>

\* After the loop (lines 215-221): print, join both threads, return 0.
MainFinish ==
    /\ \/ /\ pc["main"] = "m_alldone"
          /\ pc' = Enter("main", "m_join_r")
          /\ UNCHANGED exit_code
       \/ /\ pc["main"] = "m_join_r"
          /\ pc["reader"] = "done"
          /\ pc' = Enter("main", "m_join_w")
          /\ UNCHANGED exit_code
       \/ /\ pc["main"] = "m_join_w"
          /\ pc["writer"] = "done"
          /\ pc' = Enter("main", "exit")
          /\ exit_code' = Exit("encode", 0)
    /\ UNCHANGED <<qvars, prog, input, file_size, fpos, frames_produced,
                   frames_consumed, reader_done, buf, written, ff_stdin,
                   write_error, m_ld, m_prod, m_cons>>
    /\ UNCHANGED <<npush, dvars, yvars>>

\* One step of each thread of the encode branch of src/test.cpp.
MainStep ==
    \/ MainStat
    \/ MainPopen
    \/ MainSpawn
    \/ MainLoadDone
    \/ MainCmpFirst
    \/ MainCmpSecond
    \/ MainBody
    \/ MainFinish

ReaderStep ==
    \/ ReaderFopen
    \/ ReaderFrame
    \/ ReaderPushed
    \/ ReaderClose
    \/ ReaderDone

WriterStep ==
    \/ WriterPop
    \/ WriterPopped
    \/ WriterWrite
    \/ WriterInc
    \/ WriterPclose

\* One step of the encode branch of src/test.cpp.
EncodeNext ==
    \/ MainStep
    \/ ReaderStep
    \/ WriterStep
    \/ \E t \in PipeThreads : QueueStep(t) \/ SpuriousWake(t)

(* ----------------- src/test.cpp: the decode branch --------------------- *)
\* The big-endian value of bytes (line 259): orig_size = orig_size << 8 | b.
RECURSIVE ReadBE(_)
ReadBE(bytes) ==
    IF bytes = <<>> THEN 0
    ELSE ReadBE(SubSeq(bytes, 1, Len(bytes) - 1)) * 256 + bytes[Len(bytes)]

\* What the read loop does with a read of got bytes (lines 243-244): the
\* bytes appended to the temporary file.
TmpAppend(t, got) == t \o got

\* The number of bytes one pass of the copy loop asks for (line 272).
ToRead(rem) == IF rem < COPY_BUF THEN rem ELSE COPY_BUF

\* A step that may fail and return 1, or go on to position at.
DecodeTry(ok, at) ==
    IF ok
    THEN /\ dpc' = at
         /\ UNCHANGED exit_code
    ELSE /\ dpc' = "exit"
         /\ exit_code' = Exit("decode", 1)

\* start_ffmpeg_reader (lines 226-228), run on the video the encode branch
\* made: the codec gives back the bytes it received.
DecodeStart ==
    /\ prog = "test"
    /\ exit_code["encode"] = 0
    /\ dpc = "off"
    /\ \E ok \in BOOLEAN :
        /\ DecodeTry(ok, "d_fopen")
        /\ ff_stdout' = IF ok THEN ff_stdin ELSE ff_stdout
    /\ UNCHANGED <<dpos, frames, tmp, tpos, orig_size, remaining, final_out>>
    /\ UNCHANGED <<qvars, npush, prog, input, evars, yvars>>

\* fopen(tmpPath, "wb") (lines 233-235).
DecodeFopenTmp ==
    /\ dpc = "d_fopen"
    /\ \E ok \in BOOLEAN : DecodeTry(ok, "d_read")
    /\ tmp' = <<>>
    /\ UNCHANGED <<ff_stdout, dpos, frames, tpos, orig_size, remaining,
                   final_out>>
    /\ UNCHANGED <<qvars, npush, prog, input, evars, yvars>>

\* One pass of the read loop (lines 241-247), and lines 248-250 after it.
DecodeRead ==
    /\ dpc = "d_read"
    /\ LET got == FRead(ff_stdout, dpos, FRAME_CAPACITY)
       IN  IF Len(got) = 0
           THEN /\ dpc' = "d_reopen"
                /\ UNCHANGED <<dpos, tmp, frames>>
           ELSE /\ tmp' = TmpAppend(tmp, got)
                /\ dpos' = dpos + Len(got)
                /\ frames' = frames + 1
                /\ UNCHANGED dpc
    /\ UNCHANGED <<ff_stdout, tpos, orig_size, remaining, final_out,
                   exit_code>>
    /\ UNCHANGED <<qvars, npush, prog, input, evars, yvars>>

\* fopen(tmpPath, "rb") (lines 253-254).
DecodeReopen ==
    /\ dpc = "d_reopen"
    /\ \E ok \in BOOLEAN : DecodeTry(ok, "d_header")
    /\ tpos' = 0
    /\ UNCHANGED <<ff_stdout, dpos, frames, tmp, orig_size, remaining,
                   final_out>>
    /\ UNCHANGED <<qvars, npush, prog, input, evars, yvars>>

\* The size header (lines 256-259): 8 bytes, or an error.
DecodeHeader ==
    /\ dpc = "d_header"
    /\ LET size_bytes == FRead(tmp, tpos, 8)
       IN  /\ DecodeTry(Len(size_bytes) = 8, "d_fopen_out")
           /\ tpos' = tpos + Len(size_bytes)
           /\ orig_size' = IF Len(size_bytes) = 8 THEN ReadBE(size_bytes)
                            ELSE orig_size
    /\ UNCHANGED <<ff_stdout, dpos, frames, tmp, remaining, final_out>>
    /\ UNCHANGED <<qvars, npush, prog, input, evars, yvars>>

\* fopen(output, "wb"), remaining, fseek(tmp, 8) (lines 262-270).
DecodeFopenOut ==
    /\ dpc = "d_fopen_out"
    /\ \E ok \in BOOLEAN :
        /\ DecodeTry(ok, "d_copy")
        /\ IF ok
           THEN /\ final_out' = <<>>
                /\ remaining' = orig_size
                /\ tpos' = 8
           ELSE UNCHANGED <<final_out, remaining, tpos>>
    /\ UNCHANGED <<ff_stdout, dpos, frames, tmp, orig_size>>
    /\ UNCHANGED <<qvars, npush, prog, input, evars, yvars>>

\* One pass of the copy loop (lines 271-277), or the end of the branch
\* (lines 278-283).
DecodeCopy ==
    /\ dpc = "d_copy"
    /\ LET r == FRead(tmp, tpos, ToRead(remaining))
       IN  IF remaining > 0 /\ Len(r) > 0
           THEN /\ final_out' = final_out \o r
                /\ remaining' = remaining - Len(r)
                /\ tpos' = tpos + Len(r)
                /\ UNCHANGED <<dpc, exit_code>>
           ELSE /\ dpc' = "exit"
                /\ exit_code' = Exit("decode", 0)
                /\ UNCHANGED <<final_out, remaining, tpos>>
    /\ UNCHANGED <<ff_stdout, dpos, frames, tmp, orig_size>>
    /\ UNCHANGED <<qvars, npush, prog, input, evars, yvars>>

\* One step of the decode branch of src/test.cpp.
DecodeNext ==
    \/ DecodeStart
    \/ DecodeFopenTmp
    \/ DecodeRead
    \/ DecodeReopen
    \/ DecodeHeader
    \/ DecodeFopenOut
    \/ DecodeCopy

(* -------------------- src/yt-safe.cpp: encode_file --------------------- *)
\* write_u64_le (lines 18-20): dst[i] = (v >> (i * 8)) & 0xFF.
write_u64_le(v) == [k \in 1..8 |-> Shr8(v, k - 1) % 256]

\* read_u64_le (lines 23-27): v |= src[i] << (i * 8).  The uint64_t is
\* kept at its full width as four 16-bit limbs, the least significant
\* first: limb k holds bits 16(k-1) .. 16k-1.
read_u64_le(src) == [k \in 1..4 |-> src[2 * k - 1] + 256 * src[2 * k]]

\* v > n, for a uint64_t v and a size n below 2^16.
GtU64(v, n) == v[2] # 0 \/ v[3] # 0 \/ v[4] # 0 \/ v[1] > n

\* std::min<uint64_t>(bytes_left, FRAME_SIZE - HEADER_SIZE) (line 61).
PayloadLen(left) ==
    IF left < FRAME_SIZE - HEADER_SIZE THEN left ELSE FRAME_SIZE - HEADER_SIZE

\* The frame of one pass of the loop (lines 64-72): index and payload
\* length in the header, the payload read from the file, noise after it.
YtFrameNoIndex(old, index, data, noise) ==
    WriteAt(WriteAt(WriteAt(old, 8, write_u64_le(Len(data))),
                    HEADER_SIZE, data),
            HEADER_SIZE + Len(data), noise)
YtFrame(old, index, data, noise) ==
    WriteAt(WriteAt(WriteAt(WriteAt(old, 0, write_u64_le(index)),
                            8, write_u64_le(Len(data))),
                    HEADER_SIZE, data),
            HEADER_SIZE + Len(data), noise)

YtTry(ok, p, at) ==
    IF ok
    THEN /\ ypc' = at
         /\ UNCHANGED exit_code
    ELSE /\ ypc' = "exit"
         /\ exit_code' = Exit(p, 1)

\* Open the input, take its size (lines 33-43).
YtEncodeOpen ==
    /\ ypc = "e_open"
    /\ \E ok \in BOOLEAN :
        /\ YtTry(ok, "encode", "e_popen")
        /\ bytes_left' = IF ok THEN Len(input) ELSE bytes_left
    /\ frame_index' = 0
    /\ fin_pos' = 0
    /\ UNCHANGED <<frame, pipe_in, fout, dvars>>
    /\ UNCHANGED <<qvars, npush, prog, input, evars>>

\* popen, and the frame buffer (lines 46-58).
YtEncodePopen ==
    /\ ypc = "e_popen"
    /\ \E ok \in BOOLEAN :
        /\ YtTry(ok, "encode", "e_loop")
        /\ frame' = IF ok THEN Zeros(FRAME_SIZE) ELSE frame
    /\ UNCHANGED <<bytes_left, frame_index, fin_pos, pipe_in, fout, dvars>>
    /\ UNCHANGED <<qvars, npush, prog, input, evars>>

\* One pass of the loop (lines 60-78), or pclose and return 0 (80-81).
YtEncodeFrame ==
    /\ ypc = "e_loop"
    /\ IF bytes_left > 0
       THEN LET payload == PayloadLen(bytes_left)
                data == FRead(input, fin_pos, payload)
            IN  \E noise \in [1..(FRAME_SIZE - HEADER_SIZE - payload) -> RandValues] :
                /\ frame' = YtFrame(frame, frame_index, data, noise)
                /\ pipe_in' = pipe_in \o frame'
                /\ fin_pos' = fin_pos + Len(data)
                /\ bytes_left' = bytes_left - payload
                /\ frame_index' = frame_index + 1
                /\ UNCHANGED <<ypc, exit_code>>
       ELSE /\ ypc' = "d_popen"
            /\ exit_code' = Exit("encode", 0)
            /\ UNCHANGED <<frame, pipe_in, fin_pos, bytes_left, frame_index>>
    /\ UNCHANGED <<fout, dvars>>
    /\ UNCHANGED <<qvars, npush, prog, input, evars>>

(* -------------------- src/yt-safe.cpp: decode_video -------------------- *)
\* The clamp of lines 116-117.
ClampLow16(payload) ==
    IF payload[1] > FRAME_SIZE - HEADER_SIZE THEN FRAME_SIZE - HEADER_SIZE
    ELSE payload[1]
Clamp(payload) ==
    IF GtU64(payload, FRAME_SIZE - HEADER_SIZE) THEN FRAME_SIZE - HEADER_SIZE
    ELSE payload[1]

\* What one full frame adds to the output (lines 114-119).
FramePayloadFromZero(f) == SubSeq(f, 1, Clamp(read_u64_le(SubSeq(f, 9, 16))))
FramePayload(f) ==
    SubSeq(f, HEADER_SIZE + 1,
           HEADER_SIZE + Clamp(read_u64_le(SubSeq(f, 9, 16))))

\* popen (lines 89-98), on the video encode_file made: the codec gives
\* back the bytes it received.
YtDecodePopen ==
    /\ ypc = "d_popen"
    /\ \E ok \in BOOLEAN :
        /\ YtTry(ok, "decode", "d_open")
        /\ ff_stdout' = IF ok THEN pipe_in ELSE ff_stdout
    /\ dpos' = 0
    /\ UNCHANGED <<bytes_left, frame_index, fin_pos, frame, pipe_in, fout,
                   dpc, frames, tmp, tpos, orig_size, remaining, final_out>>
    /\ UNCHANGED <<qvars, npush, prog, input, evars>>

\* The output file and the frame buffer (lines 100-106).
YtDecodeOpen ==
    /\ ypc = "d_open"
    /\ \E ok \in BOOLEAN :
        /\ YtTry(ok, "decode", "d_loop")
        /\ frame' = IF ok THEN Zeros(FRAME_SIZE) ELSE frame
    /\ fout' = <<>>
    /\ UNCHANGED <<bytes_left, frame_index, fin_pos, pipe_in, dvars>>
    /\ UNCHANGED <<qvars, npush, prog, input, evars>>

\* One pass of the loop (lines 108-120), or pclose and return 0 (122-123).
YtDecodeFrame ==
    /\ ypc = "d_loop"
    /\ LET got == FRead(ff_stdout, dpos, FRAME_SIZE)
       IN  /\ frame' = WriteAt(frame, 0, got)
           /\ dpos' = dpos + Len(got)
           /\ IF Len(got) < FRAME_SIZE
              THEN /\ ypc' = "exit"
                   /\ exit_code' = Exit("decode", 0)
                   /\ UNCHANGED fout
              ELSE /\ fout' = fout \o FramePayload(frame')
                   /\ UNCHANGED <<ypc, exit_code>>
    /\ UNCHANGED <<bytes_left, frame_index, fin_pos, pipe_in, ff_stdout,
                   dpc, frames, tmp, tpos, orig_size, remaining, final_out>>
    /\ UNCHANGED <<qvars, npush, prog, input, evars>>

\* One step of src/yt-safe.cpp.
YtNext ==
    \/ YtEncodeOpen
    \/ YtEncodePopen
    \/ YtEncodeFrame
    \/ YtDecodePopen
    \/ YtDecodeOpen
    \/ YtDecodeFrame

(* ------------------------------ the runs ------------------------------- *)
Init ==
    /\ QueueNew
    /\ npush = 0
    /\ prog \in {"test", "yt"}
    /\ input \in Inputs
    /\ exit_code = NotRun
    /\ pc = [t \in {"main", "reader", "writer"} |->
                IF t = "main" /\ prog = "test" THEN "m_stat" ELSE "off"]
    /\ file_size = 0
    /\ fpos = 0
    /\ frames_produced = 0
    /\ frames_consumed = 0
    /\ reader_done = FALSE
    /\ buf = <<>>
    /\ written = <<>>
    /\ ff_stdin = <<>>
    /\ write_error = FALSE
    /\ m_ld = 0
    /\ m_prod = 0
    /\ m_cons = 0
    /\ DecodeOff
    /\ YtOff(IF prog = "yt" THEN "e_open" ELSE "off")

Next ==
    \/ EncodeNext
    \/ DecodeNext
    \/ YtNext

Spec == Init /\ [][Next]_vars

\* The encode branch of src/test.cpp alone, under fair scheduling of its
\* threads: every thread that can run does, and a thread that keeps asking
\* for the mutex gets it.  The files are those of every length whose bytes
\* count up from 1 (what the threads do depends on the length alone).
InitEncode ==
    /\ Init
    /\ prog = "test"
    /\ input \in InputsOf(1)

FairSpec ==
    /\ InitEncode
    /\ [][EncodeNext]_vars
    /\ WF_vars(MainStep)
    /\ WF_vars(ReaderStep)
    /\ WF_vars(WriterStep)
    /\ \A t \in PipeThreads : SF_vars(Lock(t)) /\ WF_vars(BodyStep(t))

(* ------------------- the decoders on any frame stream ------------------ *)
\* The frame streams a video can hold, whoever made it.
\* For src/test.cpp: a stream too short for the size header, or a header
\* declaring a size and up to MaxBody bytes after it (no frame, one frame,
\* more than one frame, with or without a partial frame at the end).
MaxBody == 12
DeclaredSizes == {0, 1, 2, 5, 10, 11, 12, 13, 300}
StreamBody(n) == [i \in 1..n |-> 100 + i]
SizeBytes(S) == <<0, 0, 0, 0, 0, 0, S \div 256, S % 256>>
TestStreams ==
    {[i \in 1..n |-> 1] : n \in 0..7}
        \cup {SizeBytes(S) \o StreamBody(n) : S \in DeclaredSizes, n \in 0..MaxBody}

\* For src/yt-safe.cpp: up to two full frames, each with any of the
\* DeclaredFields as its payload-length field, and then nothing, one byte,
\* or a frame short of one byte.
DeclaredFields ==
    {<<0, 0, 0, 0, 0, 0, 0, 0>>, <<1, 0, 0, 0, 0, 0, 0, 0>>,
     <<2, 0, 0, 0, 0, 0, 0, 0>>, <<3, 0, 0, 0, 0, 0, 0, 0>>,
     <<255, 0, 0, 0, 0, 0, 0, 0>>, <<0, 1, 0, 0, 0, 0, 0, 0>>,
     <<1, 0, 1, 0, 0, 0, 0, 0>>, <<1, 0, 0, 0, 1, 0, 0, 0>>,
     <<0, 0, 0, 0, 0, 0, 0, 128>>,
     <<255, 255, 255, 255, 255, 255, 255, 255>>}
StreamFrame(k, field) ==
    <<k, 0, 0, 0, 0, 0, 0, 0>> \o field
        \o [i \in 1..(FRAME_SIZE - HEADER_SIZE) |-> 10 * (k + 1) + i]
PartialFrames ==
    {[i \in 1..n |-> 200 + i] : n \in {0, 1, FRAME_SIZE - 1}}
YtStreams ==
    {p : p \in PartialFrames}
        \cup {StreamFrame(0, a) \o p : a \in DeclaredFields, p \in PartialFrames}
        \cup {StreamFrame(0, a) \o StreamFrame(1, b) \o p :
                  a \in DeclaredFields, b \in DeclaredFields,
                  p \in PartialFrames}

\* A video exists (its encoder has ended with 0) and holds any of these
\* streams; the decoder of either program is about to run on it.
InitDecode ==
    /\ QueueNew
    /\ npush = 0
    /\ prog \in {"test", "yt"}
    /\ input = <<>>
    /\ exit_code = [NotRun EXCEPT !["encode"] = 0]
    /\ pc = [t \in {"main", "reader", "writer"} |-> "off"]
    /\ file_size = 0
    /\ fpos = 0
    /\ frames_produced = 0
    /\ frames_consumed = 0
    /\ reader_done = FALSE
    /\ buf = <<>>
    /\ written = <<>>
    /\ ff_stdin \in (IF prog = "test" THEN TestStreams ELSE {<<>>})
    /\ write_error = FALSE
    /\ m_ld = 0
    /\ m_prod = 0
    /\ m_cons = 0
    /\ DecodeOff
    /\ ypc = IF prog = "yt" THEN "d_popen" ELSE "off"
    /\ bytes_left = 0
    /\ frame_index = 0
    /\ fin_pos = 0
    /\ frame = <<>>
    /\ pipe_in \in (IF prog = "yt" THEN YtStreams ELSE {<<>>})
    /\ fout = <<>>

NextDecode ==
    \/ DecodeNext
    \/ YtDecodePopen
    \/ YtDecodeOpen
    \/ YtDecodeFrame

SpecDecode == InitDecode /\ [][NextDecode]_vars

(* ============================== properties ============================= *)
IsPrefix(s, t) == Len(s) <= Len(t) /\ s = SubSeq(t, 1, Len(s))

EncodeExited == pc["main"] = "exit"

\* C1: global-size variant (src/test.cpp): when the encode branch has run
\* on a file and the decode branch has then run to its end on the stream
\* the codec received, the output file holds exactly the bytes of the
\* source file, whatever its length.
C1_RoundTripGlobal ==
    (prog = "test" /\ exit_code["decode"] = 0) => final_out = input

\* A file that spans several frames, the last one partly filled, has been
\* encoded and decoded.
C1_Witness ==
    /\ prog = "test"
    /\ exit_code["decode"] = 0
    /\ Len(input) > first_capacity + FRAME_CAPACITY
    /\ Len(ff_stdout) = 3 * FRAME_CAPACITY
    /\ final_out = input

\* C2: per-frame variant (src/yt-safe.cpp): when decode_video has run to
\* its end on the frames encode_file wrote, the output file holds exactly
\* the bytes of the source file: no header byte, no filler byte.
C2_RoundTripPerFrame ==
    (prog = "yt" /\ exit_code["decode"] = 0) => fout = input

\* A file of several frames whose last frame carries a filler byte has
\* been encoded and decoded.
C2_Witness ==
    /\ prog = "yt"
    /\ exit_code["decode"] = 0
    /\ Len(input) = 2 * (FRAME_SIZE - HEADER_SIZE) + 1
    /\ Len(ff_stdout) = 3 * FRAME_SIZE
    /\ fout = input

\* C3: the queue never holds more than max_frames frames, under any
\* interleaving of push, pop and close by the callers.
C3_QueueBounded == Len(q) <= max_frames

\* The queue is full and a caller is blocked in push.
C3_Witness == Len(q) = max_frames /\ cv_not_full # {}

\* C4: in the encode pipeline (one producer, one consumer) the frames pop
\* returned are a prefix of the frames push accepted, and the frames the
\* writer handed to the codec are the frames pop returned, in that order,
\* but for the one it holds: none duplicated, skipped or reordered.
C4_Fifo ==
    prog = "test" =>
        /\ IsPrefix(delivered, accepted)
        /\ IsPrefix(written, delivered)
        /\ Len(delivered) - Len(written) <= 1

\* Three different frames went through the queue, two of them queued at the
\* same time, and all three reached the codec.
C4_Witness ==
    /\ prog = "test"
    /\ Len(written) = 3
    /\ written[1] # written[2]
    /\ written[2] # written[3]
    /\ written = accepted
    /\ EncodeExited

\* C5: a push that finds the queue closed returns false and leaves the
\* queue as it is, even when there is room; one that finds it open and full
\* blocks; one that finds it open with room appends its buffer at the tail
\* and returns true.
C5_PushContract ==
    [][\A t \in Callers :
        (qpc[t] = "push_cs" /\ qpc'[t] # "push_cs") =>
            IF closed
            THEN qpc'[t] = "ret" /\ ret'[t] = FALSE /\ q' = q
            ELSE IF Len(q) >= max_frames
            THEN qpc'[t] = "push_wait" /\ q' = q
            ELSE qpc'[t] = "ret" /\ ret'[t] = TRUE /\ q' = Append(q, arg[t])
      ]_vars

\* A push on a closed queue that was always empty has returned false.
C5_Witness ==
    /\ closed
    /\ accepted = <<>>
    /\ \E t \in Callers : qpc[t] = "ret" /\ arg[t] # NoFrame /\ ~ret[t]

\* C6: a pop that finds a frame takes the front one and returns true,
\* closed or not; one that finds the queue empty blocks while it is open and
\* returns false once it is closed.  At all times the frames accepted are
\* the frames delivered followed by the frames queued: close loses none.
C6_PopContract ==
    /\ [](accepted = delivered \o q)
    /\ [][\A t \in Callers :
            (qpc[t] = "pop_cs" /\ qpc'[t] # "pop_cs") =>
                IF q # <<>>
                THEN /\ qpc'[t] = "ret" /\ ret'[t] = TRUE
                     /\ out'[t] = Head(q) /\ q' = Tail(q)
                ELSE IF closed
                THEN qpc'[t] = "ret" /\ ret'[t] = FALSE /\ q' = q
                ELSE qpc'[t] = "pop_wait" /\ q' = q
         ]_vars

\* Frames that were queued when close ran have been popped since, and the
\* queue is drained.
C6_Witness ==
    /\ closed
    /\ cl_delivered >= 0
    /\ Len(delivered) >= cl_delivered + 2
    /\ q = <<>>
    /\ delivered = accepted

\* A call of push by t is under way (its buffer is not empty).
InPush(t) == qpc[t] \in {"push_lock", "push_cs", "push_wait"}
InPop(t) == qpc[t] \in {"pop_lock", "pop_cs", "pop_wait"}

\* C7: a close of a closed queue leaves its contents and its flag; close
\* leaves no caller blocked on either condition variable; and under fair
\* scheduling a push that is under way when the queue is closed returns
\* false, and so does a pop under way when it is closed and empty.
C7_CloseWakes ==
    /\ [][\A t \in Callers :
            (qpc[t] = "close_cs" /\ qpc'[t] = "ret") =>
                closed' /\ q' = q /\ accepted' = accepted]_vars
    /\ [](closed => cv_not_full = {} /\ cv_not_empty = {})
    /\ \A t \in Callers :
          /\ (closed /\ InPush(t)) ~> (qpc[t] = "ret" /\ ~ret[t])
          /\ (closed /\ q = <<>> /\ InPop(t)) ~> (qpc[t] = "ret" /\ ~ret[t])

\* Two callers were blocked when close ran, and both have returned false.
C7_Witness ==
    /\ Cardinality(cl_woke) = 2
    /\ \A t \in cl_woke : qpc[t] = "ret" /\ ~ret[t]

\* C8: when write_all has failed in the writer thread, the reader thread,
\* the writer thread and the main thread all come to an end.
C8_NoDeadlockAfterWriteError ==
    write_error ~>
        (pc["reader"] = "done" /\ pc["writer"] = "done" /\ EncodeExited)

\* C9: with a codec that accepts every write the encode branch comes to
\* an end under fair scheduling, and where it returns 0 the reader is done
\* and the frames consumed, the frames produced and the frames the codec
\* received are the same number.
C9_Terminates ==
    /\ [](prog = "test" /\ exit_code["encode"] = 0 =>
            /\ reader_done
            /\ closed
            /\ q = <<>>
            /\ frames_consumed = frames_produced
            /\ Len(ff_stdin) = frames_produced * FRAME_CAPACITY)
    /\ (prog = "test") ~> (write_error \/ EncodeExited)

\* A file of three frames has been encoded and main has returned 0.
C9_Witness ==
    /\ prog = "test"
    /\ exit_code["encode"] = 0
    /\ frames_produced = 3
    /\ frames_consumed = 3

\* The bytes of the source file that frame number i (from 1) of
\* src/test.cpp carries.
DataLen(i) ==
    LET left == IF i = 1 THEN Len(input)
                ELSE Len(input) - first_capacity - (i - 2) * FRAME_CAPACITY
        room == IF i = 1 THEN first_capacity ELSE FRAME_CAPACITY
    IN  IF left < room THEN left ELSE room

\* C10: every buffer pushed to the queue and every buffer handed to
\* write_all is FRAME_CAPACITY bytes long with zeros after the bytes read
\* from the file, and what src/yt-safe.cpp has written to the pipe is
\* FRAME_SIZE bytes for each frame.
C10_FrameSize ==
    /\ \A i \in 1..Len(accepted) :
          /\ Len(accepted[i]) = FRAME_CAPACITY
          /\ prog = "test" =>
                \A j \in 1..FRAME_CAPACITY :
                    j > (IF i = 1 THEN 8 ELSE 0) + DataLen(i)
                        => accepted[i][j] = 0
    /\ \A t \in PipeThreads : InPush(t) => Len(arg[t]) = FRAME_CAPACITY
    /\ \A i \in 1..Len(written) : Len(written[i]) = FRAME_CAPACITY
    /\ Len(pipe_in) = frame_index * FRAME_SIZE
    /\ ypc = "e_loop" => Len(frame) = FRAME_SIZE

\* The last frame of a file holds one byte of it, and has reached the codec
\* at full length.
C10_Witness ==
    /\ prog = "test"
    /\ Len(input) = first_capacity + FRAME_CAPACITY + 1
    /\ input[Len(input)] # 0
    /\ Len(written) = 3
    /\ Len(ff_stdin) = 3 * FRAME_CAPACITY


\* min(declared, FRAME_SIZE - HEADER_SIZE) for the payload-length field of
\* frame f, read off its bytes 8..15: the field is below 2^16 when its six
\* upper bytes are zero.
DeclaredMin(f) ==
    IF (\A i \in 11..16 : f[i] = 0)
         /\ f[9] + 256 * f[10] <= FRAME_SIZE - HEADER_SIZE
    THEN f[9] + 256 * f[10]
    ELSE FRAME_SIZE - HEADER_SIZE

\* C11: in decode_video, every pass of the loop that read a full frame
\* appends to the output min(declared, FRAME_SIZE - HEADER_SIZE) bytes,
\* whatever the 64-bit payload-length field declares, and each of these
\* bytes is the byte of the frame buffer at an offset in
\* [HEADER_SIZE, FRAME_SIZE).
C11_ClampOnDecode ==
    [][(prog = "yt" /\ ypc = "d_loop" /\ dpos' = dpos + FRAME_SIZE) =>
          LET n == Len(fout') - Len(fout)
          IN  /\ frame' = SubSeq(ff_stdout, dpos + 1, dpos + FRAME_SIZE)
              /\ n = DeclaredMin(frame')
              /\ SubSeq(fout', 1, Len(fout)) = fout
              /\ \A i \in 1..n :
                    /\ HEADER_SIZE + i - 1 \in HEADER_SIZE..(FRAME_SIZE - 1)
                    /\ fout'[Len(fout) + i] = frame'[HEADER_SIZE + i]]_vars

\* A frame declaring 2^64 - 1 payload bytes has been decoded after one
\* declaring 65537, and each gave FRAME_SIZE - HEADER_SIZE bytes.
C11_Witness ==
    /\ prog = "yt"
    /\ ypc = "d_loop"
    /\ dpos = 2 * FRAME_SIZE
    /\ SubSeq(ff_stdout, 9, 16) = <<1, 0, 1, 0, 0, 0, 0, 0>>
    /\ \A i \in 9..16 : frame[i] = 255
    /\ Len(fout) = 2 * (FRAME_SIZE - HEADER_SIZE)

\* C12: an empty source file: when an encoder has ended with 0 the codec
\* has received at least one frame from it (src/test.cpp: FRAME_CAPACITY
\* bytes, src/yt-safe.cpp: FRAME_SIZE bytes), and when the decoder has then
\* ended with 0 the output file is empty.
C12_EmptyFile ==
    (Len(input) = 0 /\ exit_code["encode"] = 0) =>
        /\ prog = "test" => Len(ff_stdin) >= FRAME_CAPACITY
        /\ prog = "yt" => Len(pipe_in) >= FRAME_SIZE
        /\ (prog = "test" /\ exit_code["decode"] = 0) => final_out = <<>>
        /\ (prog = "yt" /\ exit_code["decode"] = 0) => fout = <<>>

\* C13: an encoder that could not open or read its source file does not
\* end with 0: src/test.cpp after a failed stat (no thread was started) or
\* a failed fopen in the reader thread (f is NULL), src/yt-safe.cpp after
\* a failed open of the ifstream (encode_file ended before popen).
C13_UnreadableSourceFails ==
    /\ (prog = "test" /\ pc["main"] = "exit" /\ pc["reader"] = "off")
           => exit_code["encode"] > 0
    /\ (prog = "test" /\ pc["main"] = "exit" /\ fpos = -1)
           => exit_code["encode"] > 0
    /\ (prog = "yt" /\ ypc = "exit" /\ frame = <<>> /\ exit_code["decode"] = -1)
           => exit_code["encode"] > 0

\* The k-th frame (from 0) that encode_file wrote to the pipe, and the sum
\* of the payload lengths declared by the low byte of the length field of
\* the first n frames.
PipeFrame(k) == SubSeq(pipe_in, k * FRAME_SIZE + 1, (k + 1) * FRAME_SIZE)
RECURSIVE DeclaredSum(_)
DeclaredSum(n) == IF n = 0 THEN 0 ELSE DeclaredSum(n - 1) + PipeFrame(n - 1)[9]

\* C14: in encode_file, after any number of passes of the loop, the frames
\* written carry the indices 0, 1, 2, ... in their first 8 bytes
\* (little-endian), each declares in its next 8 bytes a payload length
\* between 1 and FRAME_SIZE - HEADER_SIZE, and bytes_left plus the sum of
\* the declared lengths is the file size; at the end the sum is the file
\* size.
C14_IndexAndLengths ==
    (prog = "yt" /\ ypc \notin {"off", "e_open", "e_popen", "exit"}) =>
        /\ Len(pipe_in) = frame_index * FRAME_SIZE
        /\ \A k \in 0..(frame_index - 1) :
              /\ SubSeq(PipeFrame(k), 1, 8) = <<k, 0, 0, 0, 0, 0, 0, 0>>
              /\ PipeFrame(k)[9] \in 1..(FRAME_SIZE - HEADER_SIZE)
              /\ \A i \in 10..16 : PipeFrame(k)[i] = 0
        /\ bytes_left + DeclaredSum(frame_index) = Len(input)
        /\ exit_code["encode"] = 0 => DeclaredSum(frame_index) = Len(input)

\* A file of two full payloads and one byte has been written as frames 0,
\* 1 and 2.
C14_Witness ==
    /\ prog = "yt"
    /\ exit_code["encode"] = 0
    /\ Len(input) = 2 * (FRAME_SIZE - HEADER_SIZE) + 1
    /\ frame_index = 3
    /\ PipeFrame(2)[1] = 2
    /\ PipeFrame(2)[9] = 1

\* ceil(a / b) for a >= 0, b > 0.
CeilDiv(a, b) == (a + b - 1) \div b

\* The least number of frames that hold a file of L bytes.
FramesYt(L) == CeilDiv(L, FRAME_SIZE - HEADER_SIZE)
FramesTest(L) ==
    IF L <= FRAME_CAPACITY - 8 THEN 1
    ELSE 1 + CeilDiv(L - (FRAME_CAPACITY - 8), FRAME_CAPACITY)

\* C15: an encoder that has read its file of L bytes has produced the
\* least number of frames that hold it.  src/yt-safe.cpp: when encode_file
\* has ended with 0, ceil(L / (FRAME_SIZE - 16)) frames for L > 0, all but
\* the last with a full payload.  src/test.cpp: when the reader thread has
\* opened the file and ended, 1 frame for L <= FRAME_CAPACITY - 8 and
\* 1 + ceil((L - (FRAME_CAPACITY - 8)) / FRAME_CAPACITY) frames otherwise,
\* and when main has returned 0 the codec has received that many frames,
\* the file's bytes following the 8-byte header without a gap (padding in
\* the last frame only).
C15_LeastFrames ==
    /\ (prog = "yt" /\ exit_code["encode"] = 0 /\ Len(input) > 0) =>
          /\ frame_index = FramesYt(Len(input))
          /\ Len(pipe_in) = FramesYt(Len(input)) * FRAME_SIZE
          /\ \A k \in 0..(frame_index - 2) :
                PipeFrame(k)[9] = FRAME_SIZE - HEADER_SIZE
    /\ (prog = "test" /\ pc["reader"] = "done" /\ fpos >= 0) =>
          /\ frames_produced = FramesTest(Len(input))
          /\ Len(accepted) = FramesTest(Len(input))
    /\ (prog = "test" /\ exit_code["encode"] = 0 /\ fpos >= 0) =>
          /\ Len(ff_stdin) = FramesTest(Len(input)) * FRAME_CAPACITY
          /\ SubSeq(ff_stdin, 9, 8 + Len(input)) = input
          /\ 8 + Len(input) > (FramesTest(Len(input)) - 1) * FRAME_CAPACITY

\* src/yt-safe.cpp has written a file of 3.5 payloads as 4 frames, the
\* last one half filled.
C15_Witness ==
    /\ prog = "yt"
    /\ exit_code["encode"] = 0
    /\ 2 * Len(input) = 7 * (FRAME_SIZE - HEADER_SIZE)
    /\ frame_index = 4
    /\ 2 * PipeFrame(3)[9] = FRAME_SIZE - HEADER_SIZE

\* The size the first 8 bytes of the stream declare, big-endian, when it is
\* below 2^16, and the bytes of the stream that lie in full frames.
DeclaredBE == ff_stdout[7] * 256 + ff_stdout[8]
FullFramesLen(size) == (Len(ff_stdout) \div size) * size

\* C16: when the decode branch of src/test.cpp has ended with 0 on a
\* stream whose first 8 bytes declare the size S, the output file holds
\* exactly S bytes: the S bytes of the stream that follow the header, and
\* nothing after them.
C16_ExactDeclaredSize ==
    (prog = "test" /\ exit_code["decode"] = 0) =>
        /\ Len(final_out) = DeclaredBE
        /\ Len(ff_stdout) >= 8 + DeclaredBE
        /\ final_out = SubSeq(ff_stdout, 9, 8 + DeclaredBE)

\* C17: in both decode loops a read of less than a full frame ends the
\* stream and none of its bytes reaches the output: the temporary file of
\* src/test.cpp holds full frames only, and every byte of an output file
\* is a byte of a full frame of the stream.
C17_PartialFrameDropped ==
    /\ (prog = "yt" /\ exit_code["decode"] = 0) =>
          \A i \in 1..Len(fout) :
              \E j \in 1..FullFramesLen(FRAME_SIZE) : fout[i] = ff_stdout[j]
    /\ (prog = "test" /\ dpc \notin {"off", "d_fopen"}) =>
          Len(tmp) % FRAME_CAPACITY = 0
    /\ (prog = "test" /\ exit_code["decode"] = 0) =>
          \A i \in 1..Len(final_out) :
              \E j \in 1..FullFramesLen(FRAME_CAPACITY) :
                  final_out[i] = ff_stdout[j]

\* C18: in the encode pipeline neither counter ever decreases, in every
\* state frames_consumed <= frames_produced, and the values the progress
\* loop prints (prod and cons of lines 210-211) never show more frames
\* written than produced.
C18_ConsumedLeProduced ==
    /\ [](prog = "test" =>
            /\ frames_consumed <= frames_produced
            /\ pc["main"] = "m_print" => m_cons <= m_prod)
    /\ [][/\ frames_produced' >= frames_produced
          /\ frames_consumed' >= frames_consumed]_vars

\* C19: one producer (the reader thread) and one consumer (the writer
\* thread) on the queue: they are never both blocked; the producer is
\* blocked on cv_not_full only while the queue is full and open and the
\* consumer on cv_not_empty only while it is empty and open (no wake-up is
\* lost); and under fair scheduling a push that finds room after a pop,
\* and a pop that finds a frame after a push, return.
C19_NoLostWakeup ==
    /\ [](~("reader" \in cv_not_full /\ "writer" \in cv_not_empty))
    /\ []("reader" \in cv_not_full => (Len(q) = max_frames /\ ~closed))
    /\ []("writer" \in cv_not_empty => (q = <<>> /\ ~closed))
    /\ (InPush("reader") /\ Len(q) < max_frames) ~> (qpc["reader"] = "ret")
    /\ (InPop("writer") /\ q # <<>>) ~> (qpc["writer"] = "ret")

\* The producer is blocked on the full queue, two frames after the
\* consumer was blocked on the empty one and got the first frame, and the
\* consumer is about to pop.
C19_Witness ==
    /\ "reader" \in cv_not_full
    /\ Len(q) = max_frames
    /\ Len(delivered) = 1
    /\ qpc["writer"] = "pop_cs"

\* main has left the progress loop of line 209.
LeftLoop == pc["main"] \in {"m_alldone", "m_join_r", "m_join_w"}
               \/ (pc["main"] = "exit" /\ exit_code["encode"] = 0)

\* C20: once the main thread has left its progress loop, the reader thread
\* has ended and closed the queue, the queue is empty, the writer thread
\* holds no frame it has yet to write, and every frame counted in
\* frames_produced has been popped, written whole to the codec and counted
\* in frames_consumed.
C20_LoopExitMeansAllWritten ==
    (prog = "test" /\ LeftLoop) =>
        /\ reader_done
        /\ pc["reader"] = "done"
        /\ closed
        /\ q = <<>>
        /\ pc["writer"] \notin {"w_write", "w_inc"}
        /\ ~(pc["writer"] = "w_popped" /\ ret["writer"])
        /\ Len(accepted) = frames_produced
        /\ Len(written) = frames_produced
        /\ frames_consumed = frames_produced
        /\ Len(ff_stdin) = frames_produced * FRAME_CAPACITY

\* main has left the loop after four frames, before the writer thread has
\* seen pop return false.
C20_Witness ==
    /\ prog = "test"
    /\ pc["main"] = "m_alldone"
    /\ frames_produced = 4
    /\ pc["writer"] = "w_popped"
    /\ InPop("writer")
=============================================================================
